---- MODULE Spec2Model ----
(***************************************************************************)
(* Quiz backend: the timed-attempt lifecycle (start, answer, submit, the   *)
(* expiry sweep), the access policy and the scoring engine, modelled as    *)
(* request handlers that run concurrently against one database.            *)
(*                                                                         *)
(* A request handler owns one database session.  Every `session.commit()`  *)
(* of the source is one atomic step here; the statements between two       *)
(* commits that only read are grouped with the step that follows the       *)
(* read.  A session keeps the rows it has loaded (the ORM identity map,    *)
(* sessions are created with expire_on_commit=False), so a handler keeps   *)
(* working on the attempt and the answers it read first.                   *)
(***************************************************************************)
EXTENDS Integers, Sequences, FiniteSets, TLC

(***************************************************************************)
(* Bounds of the model.                                                    *)
(***************************************************************************)
MaxTime == 2          \* the clock runs 0..MaxTime
MaxAttempts == 2      \* rows of the attempts table
MaxAnswers == 2       \* rows of the answers table
MaxRequests == 4      \* requests the clients send
MaxResults == 3       \* rows of a results table drawn for the leaderboard
MaxLen == 3           \* characters of an answer string given to _check_answer

Procs == {"p1", "p2"}         \* request handlers that may run at once
Users == {"u1", "u2"}
QuizIds == {"q1", "q2", "q3"}
QuestionIds == {"k1", "k2", "k3"}
None == -1                    \* Optional[...] = None for numbers and ids

(***************************************************************************)
(* Strings are sequences of one-character strings, so that strip() and     *)
(* lower() are computed and not assumed.                                   *)
(***************************************************************************)
Choices == { <<"a">>, <<" ", "B">> }

IsSpace(c) == c \in {" ", "\t", "\n"}

lower_char(c) ==
    CASE c = "A" -> "a"
      [] c = "B" -> "b"
      [] OTHER -> c

lower(s) == [i \in 1..Len(s) |-> lower_char(s[i])]

RECURSIVE lstrip(_)
lstrip(s) == IF s # <<>> /\ IsSpace(Head(s)) THEN lstrip(Tail(s)) ELSE s

RECURSIVE rstrip(_)
rstrip(s) ==
    IF s # <<>> /\ IsSpace(s[Len(s)]) THEN rstrip(SubSeq(s, 1, Len(s) - 1)) ELSE s

strip(s) == rstrip(lstrip(s))

(***************************************************************************)
(* The question table.  Questions are created with their quiz and are not  *)
(* touched by the attempt lifecycle.  k1, k2 belong to q1 (one point each),*)
(* k3 to q2.                                                               *)
(***************************************************************************)
Questions ==
    [k \in QuestionIds |->
        CASE k = "k1" -> [quiz_id |-> "q1", question_type |-> "mcq",
                          correct_answer |-> <<"A">>, points |-> 1]
          [] k = "k2" -> [quiz_id |-> "q1", question_type |-> "true_false",
                          correct_answer |-> <<"b">>, points |-> 1]
          [] OTHER    -> [quiz_id |-> "q2", question_type |-> "mcq",
                          correct_answer |-> <<"a">>, points |-> 2]]

get_questions(quiz_id) == {k \in QuestionIds : Questions[k].quiz_id = quiz_id}

RECURSIVE SumPoints(_)
SumPoints(ks) ==
    IF ks = {} THEN 0
    ELSE LET k == CHOOSE x \in ks : TRUE
         IN Questions[k].points + SumPoints(ks \ {k})

(***************************************************************************)
(* Scoring engine                                                          *)
(***************************************************************************)
\* (mutant) the comparison without .lower()
_check_answer_case_sensitive(selected_answer, correct_answer, question_type) ==
    strip(selected_answer) = strip(correct_answer)

\* lines 95-98
_check_answer(selected_answer, correct_answer, question_type) ==
    LET selected == lower(strip(selected_answer))
        correct == lower(strip(correct_answer))
    IN selected = correct

\* is_correct of one answer as the loop of calculate_score sets it: "None"
\* when the answer's question is not a question of the quiz (continue).
AnswerMark(ans, quiz_id) ==
    IF ans.question_id \notin get_questions(quiz_id) THEN "None"
    ELSE IF _check_answer(ans.selected_answer,
                          Questions[ans.question_id].correct_answer,
                          Questions[ans.question_id].question_type)
         THEN "True" ELSE "False"

\* (mutant) a loop that looks the question up among all questions, not among
\* the questions of the quiz
RECURSIVE ScoreOf_any_question(_, _)
ScoreOf_any_question(anss, quiz_id) ==
    IF anss = <<>> THEN 0
    ELSE (IF _check_answer(Head(anss).selected_answer,
                           Questions[Head(anss).question_id].correct_answer,
                           Questions[Head(anss).question_id].question_type)
          THEN Questions[Head(anss).question_id].points ELSE 0)
         + ScoreOf_any_question(Tail(anss), quiz_id)

\* (mutant) a loop that stops at the first answer that earns nothing
RECURSIVE ScoreOf_until_wrong(_, _)
ScoreOf_until_wrong(anss, quiz_id) ==
    IF anss = <<>> THEN 0
    ELSE IF AnswerMark(Head(anss), quiz_id) = "True"
         THEN Questions[Head(anss).question_id].points
              + ScoreOf_until_wrong(Tail(anss), quiz_id)
         ELSE 0

\* the loop of lines 37-58: earned points of the answers given
RECURSIVE ScoreOf(_, _)
ScoreOf(anss, quiz_id) ==
    IF anss = <<>> THEN 0
    ELSE (IF AnswerMark(Head(anss), quiz_id) = "True"
          THEN Questions[Head(anss).question_id].points ELSE 0)
         + ScoreOf(Tail(anss), quiz_id)

(***************************************************************************)
(* score / total_points * 100 is computed on Python floats (IEEE-754        *)
(* binary64).  A positive double is [bits, exp]: bits are the 53 bits of   *)
(* its significand, most significant first (the first is 1), and its value *)
(* is the integer the bits spell times 2^(exp - 52).                       *)
(***************************************************************************)
Precision == 53

\* the operations work limb by limb: the significand after its leading bit
\* is Limbs limbs of LimbBits bits
LimbBits == (Precision - 1) \div 4
Limbs == (Precision - 1) \div LimbBits

\* the w bits of v, most significant first
Bits(v, w) == [i \in 1..w |-> (v \div 2^(w - i)) % 2]

RECURSIVE ToBits(_)
ToBits(n) == IF n = 0 THEN <<>> ELSE Append(ToBits(n \div 2), n % 2)

\* the integer the bits b spell
RECURSIVE FromBits(_)
FromBits(b) ==
    IF Len(b) = 0 THEN 0
    ELSE IF Len(b) = 1 THEN b[1]
    ELSE LET h == Len(b) \div 2
         IN FromBits(SubSeq(b, 1, h)) * 2^(Len(b) - h)
               + FromBits(SubSeq(b, h + 1, Len(b)))

\* num / den scaled by a power of two into [1, 2)
RECURSIVE Scale(_, _, _)
Scale(num, den, exp) ==
    IF num >= 2 * den THEN Scale(num, 2 * den, exp + 1)
    ELSE IF num < den THEN Scale(2 * num, den, exp - 1)
    ELSE [num |-> num, den |-> den, exp |-> exp]

\* long division: n more limbs of the quotient after acc, and the remainder
RECURSIVE DivBits(_, _, _, _)
DivBits(rem, den, n, acc) ==
    IF n = 0 THEN [bits |-> acc, rem |-> rem]
    ELSE LET v == rem * 2^LimbBits
         IN DivBits(v % den, den, n - 1, acc \o Bits(v \div den, LimbBits))

\* b + 1 on the bits of b, and the carry out of the first bit
Incr(b) ==
    IF \A i \in 1..Len(b) : b[i] = 1
    THEN [bits |-> [i \in 1..Len(b) |-> 0], carry |-> 1]
    ELSE LET j == CHOOSE i \in 1..Len(b) :
                      b[i] = 0 /\ \A k \in (i + 1)..Len(b) : b[k] = 1
         IN [bits |-> [i \in 1..Len(b) |->
                          IF i < j THEN b[i] ELSE IF i = j THEN 1 ELSE 0],
             carry |-> 0]

\* the double of significand b and exponent exp, rounded up by one unit in
\* the last place when up
RoundBits(b, exp, up) ==
    IF ~up THEN [bits |-> b, exp |-> exp]
    ELSE LET r == Incr(b)
         IN IF r.carry = 1
            THEN [bits |-> <<1>> \o SubSeq(r.bits, 1, Len(b) - 1), exp |-> exp + 1]
            ELSE [bits |-> r.bits, exp |-> exp]

\* float(num) / float(den) for positive integers, round to nearest, ties to
\* even
fdiv(num, den) ==
    LET n == Scale(num, den, 0)
        d == DivBits(n.num - n.den, n.den, Limbs, <<1>>)
        up == \/ 2 * d.rem > n.den
              \/ 2 * d.rem = n.den /\ d.bits[Precision] = 1
    IN RoundBits(d.bits, n.exp, up)

\* the bits of (b * c + carry), exactly, limb by limb from the last
RECURSIVE MulBits(_, _, _)
MulBits(b, c, carry) ==
    IF b = <<>> THEN ToBits(carry)
    ELSE LET w == IF Len(b) < LimbBits THEN Len(b) ELSE LimbBits
             v == FromBits(SubSeq(b, Len(b) - w + 1, Len(b))) * c + carry
         IN MulBits(SubSeq(b, 1, Len(b) - w), c, v \div 2^w) \o Bits(v % 2^w, w)

\* x * c for a positive double x and a positive integer c, round to nearest,
\* ties to even
fmul(x, c) ==
    LET p == MulBits(x.bits, c, 0)
        extra == Len(p) - Precision
        up == /\ extra > 0
              /\ p[Precision + 1] = 1
              /\ \/ \E i \in (Precision + 2)..Len(p) : p[i] = 1
                 \/ p[Precision] = 1
    IN RoundBits(SubSeq(p, 1, Precision), x.exp + extra, up)

\* int(x) for a positive double x
Floor(x) == IF x.exp < 0 THEN 0 ELSE FromBits(SubSeq(x.bits, 1, x.exp + 1))

\* the integer nearest to the number the bits p spell, the last f of them
\* after the binary point; ties to even
RoundToInt(p, f) ==
    LET n == Len(p) - f
    IN IF n < 0 THEN 0
       ELSE LET ip == FromBits(SubSeq(p, 1, n))
                guard == f > 0 /\ p[n + 1] = 1
                sticky == \E i \in (n + 2)..Len(p) : p[i] = 1
            IN IF guard /\ (sticky \/ ip % 2 = 1) THEN ip + 1 ELSE ip

\* round(percentage, 2), in hundredths of a percent, of
\* percentage = score / total_points * 100 (0 when total_points is 0)
RoundedPercentage(score, total_points) ==
    IF total_points > 0 /\ score > 0
    THEN LET percentage == fmul(fdiv(score, total_points), 100)
         IN RoundToInt(MulBits(percentage.bits, 100, 0),
                       (Precision - 1) - percentage.exp)
    ELSE 0

\* percentage >= quiz.passing_score on the unrounded float; passing_score is
\* an int
Passed(score, total_points, passing_score) ==
    IF total_points > 0 /\ score > 0
    THEN Floor(fmul(fdiv(score, total_points), 100)) >= passing_score
    ELSE 0 >= passing_score

calculate_score(anss, quiz_id, passing_score) ==
    LET total_points == SumPoints(get_questions(quiz_id))
        score == ScoreOf(anss, quiz_id)
    IN [score |-> score,
        total_points |-> total_points,
        percentage |-> RoundedPercentage(score, total_points),
        passed |-> Passed(score, total_points, passing_score)]


(***************************************************************************)
(* State                                                                   *)
(***************************************************************************)
VARIABLES
    now,            \* datetime.utcnow(), in ticks
    quizzes,        \* quizzes table: quiz id -> row
    assignments,    \* quiz_assignments table, a row's id is its index
    attempts,       \* attempts table, a row's id is its index
    answers,        \* answers table, a row's id is its index
    results,        \* results table, in order of created_at
    lock,           \* attempts row locks (SELECT ... FOR UPDATE): id -> holder
    sweep_runs,     \* parity of the runs of the periodic expiry task
    requests,       \* number of requests received so far
    refresh_tokens, \* refresh_tokens table, a row's id is its index
    issued,         \* the JWTs handed to clients so far, in order of issue
    sess            \* per request handler: its position and its session

vars == <<now, quizzes, assignments, attempts, answers, results, lock,
          sweep_runs, requests, refresh_tokens, issued, sess>>

NoAttempt ==
    [quiz_id |-> "none", user_id |-> "none", started_at |-> None,
     expires_at |-> None, submitted_at |-> None, is_submitted |-> FALSE,
     time_taken_seconds |-> None, status |-> "none"]

NoQuiz ==
    [is_published |-> FALSE, is_public |-> FALSE, max_attempts |-> None,
     duration_minutes |-> 0, passing_score |-> 0]

NoScore == [score |-> None, total_points |-> None, percentage |-> None,
            passed |-> FALSE]

\* no JWT presented
NoToken == [type |-> "none", sub |-> "none", exp |-> None, jti |-> 0]

\* the optional fields of a QuizUpdate, all absent
NoChanges == [duration_minutes |-> None, max_attempts |-> None]

Idle ==
    [pc |-> "idle", op |-> "none", user |-> "none", quiz_id |-> "none",
     attempt_id |-> 0, question_id |-> "none", selected_answer |-> <<>>,
     due_date |-> None, quiz |-> NoQuiz, attempt |-> NoAttempt,
     answers |-> <<>>, existing |-> 0, late |-> FALSE,
     time_taken_seconds |-> None, score_data |-> NoScore, result_id |-> 0,
     changes |-> NoChanges, token |-> NoToken, limit |-> None,
     rows |-> <<>>, response |-> <<>>, outcome |-> "none"]

\* A handler that has returned or raised: the session is closed, what is
\* left is the call and how it ended.
Done(s, outcome) ==
    [Idle EXCEPT !.pc = "done", !.op = s.op, !.user = s.user,
                 !.quiz_id = s.quiz_id, !.attempt_id = s.attempt_id,
                 !.question_id = s.question_id,
                 !.selected_answer = s.selected_answer,
                 !.existing = s.existing, !.late = s.late,
                 !.token = s.token, !.outcome = outcome]

\* a handler is free to take the next request
Free(p) == sess[p].pc \in {"idle", "done"}

InitQuizzes ==
    [q \in QuizIds |->
        CASE q = "q1" -> [is_published |-> TRUE, is_public |-> TRUE,
                          max_attempts |-> 1, duration_minutes |-> 1,
                          passing_score |-> 50]
          [] q = "q2" -> [is_published |-> TRUE, is_public |-> FALSE,
                          max_attempts |-> None, duration_minutes |-> 2,
                          passing_score |-> 50]
          [] OTHER    -> [is_published |-> FALSE, is_public |-> FALSE,
                          max_attempts |-> None, duration_minutes |-> 1,
                          passing_score |-> 0]]

\* u1 is assigned q2 with a due date, u2 is not assigned.
InitAssignments ==
    << [quiz_id |-> "q2", user_id |-> "u1", is_active |-> TRUE,
        due_date |-> 1] >>

Init ==
    /\ now = 0
    /\ quizzes = InitQuizzes
    /\ assignments = InitAssignments
    /\ attempts = <<>>
    /\ answers = <<>>
    /\ results = <<>>
    /\ lock = <<>>
    /\ sweep_runs = 0
    /\ requests = 0
    /\ refresh_tokens = <<>>
    /\ issued = <<>>
    /\ sess = [p \in Procs |-> Idle]

(***************************************************************************)
(* Queries of the repositories                                             *)
(***************************************************************************)
Ids(table) == 1..Len(table)

\* QuizRepository.get_user_assignment: the active rows of (quiz, user)
get_user_assignment(quiz_id, user_id) ==
    {i \in Ids(assignments) :
        /\ assignments[i].quiz_id = quiz_id
        /\ assignments[i].user_id = user_id
        /\ assignments[i].is_active}

\* AttemptRepository.get_active_attempt: the in_progress rows of (user, quiz)
get_active_attempt(user_id, quiz_id) ==
    {i \in Ids(attempts) :
        /\ attempts[i].user_id = user_id
        /\ attempts[i].quiz_id = quiz_id
        /\ attempts[i].status = "in_progress"}

count_user_attempts(user_id, quiz_id) ==
    Cardinality({i \in Ids(attempts) :
        attempts[i].user_id = user_id /\ attempts[i].quiz_id = quiz_id})

\* AttemptRepository.get_expired_attempts
get_expired_attempts ==
    {i \in Ids(attempts) :
        attempts[i].expires_at < now /\ attempts[i].status = "in_progress"}

\* The answers relationship of an attempt as a session loads it: the rows of
\* the attempt, with their ids, in id order.
RECURSIVE LoadAnswers(_, _)
LoadAnswers(attempt_id, i) ==
    IF i > Len(answers) THEN <<>>
    ELSE (IF answers[i].attempt_id = attempt_id
          THEN << [id |-> i, question_id |-> answers[i].question_id,
                   selected_answer |-> answers[i].selected_answer] >>
          ELSE <<>>) \o LoadAnswers(attempt_id, i + 1)

\* the rows of (attempt, question) in the answers table
AnswerRows(attempt_id, question_id) ==
    {i \in Ids(answers) :
        answers[i].attempt_id = attempt_id /\ answers[i].question_id = question_id}

\* the rows of the results table with this attempt id
ResultRows(attempt_id) ==
    {i \in Ids(results) : results[i].attempt_id = attempt_id}

(***************************************************************************)
(* Access policy                                                           *)
(***************************************************************************)
\* (mutant) the access policy without the due-date check of lines 65-67
can_user_access_quiz_no_due_date(user_id, quiz_id) ==
    IF quizzes[quiz_id].is_public THEN "True"
    ELSE LET rows == get_user_assignment(quiz_id, user_id)
         IN IF Cardinality(rows) > 1 THEN "MultipleResultsFound"
            ELSE IF rows = {} THEN "False"
            ELSE "True"

\* "True" / "False", or the exception scalar_one_or_none raises on two rows
can_user_access_quiz(user_id, quiz_id) ==
    IF quizzes[quiz_id].is_public THEN "True"
    ELSE LET rows == get_user_assignment(quiz_id, user_id)
         IN IF Cardinality(rows) > 1 THEN "MultipleResultsFound"
            ELSE IF rows = {} THEN "False"
            ELSE LET assignment == assignments[CHOOSE i \in rows : TRUE]
                 IN IF assignment.is_active
                    THEN IF assignment.due_date # None /\ now > assignment.due_date
                         THEN "False" ELSE "True"
                    ELSE "False"


(***************************************************************************)
(* POST /attempts/start -> AttemptService.start_attempt                    *)
(***************************************************************************)
\* how the checks of lines 90-112 end: an exception, or "pass"
StartChecks(user_id, quiz_id) ==
    IF quiz_id \notin DOMAIN quizzes THEN "QuizNotFoundException"
    ELSE IF ~quizzes[quiz_id].is_published THEN "QuizNotPublishedException"
    ELSE IF can_user_access_quiz(user_id, quiz_id) = "MultipleResultsFound"
         THEN "MultipleResultsFound"
    ELSE IF can_user_access_quiz(user_id, quiz_id) = "False"
         THEN "QuizAccessDeniedException"
    ELSE IF Cardinality(get_active_attempt(user_id, quiz_id)) > 1
         THEN "MultipleResultsFound"
    ELSE IF get_active_attempt(user_id, quiz_id) # {}
         THEN "ActiveAttemptExistsException"
    ELSE "pass"

\* lines 90-112: the quiz, its publication, the access policy, the active
\* attempt of (user, quiz)
start_attempt_check(p, user_id, quiz_id) ==
    /\ Free(p)
    /\ requests' = requests + 1
    /\ LET end == StartChecks(user_id, quiz_id)
           call == [Idle EXCEPT !.op = "start_attempt", !.user = user_id,
                                !.quiz_id = quiz_id]
       IN sess' = [sess EXCEPT ![p] =
             IF end = "pass"
             THEN [call EXCEPT !.pc = "start_count", !.quiz = quizzes[quiz_id]]
             ELSE Done(call, end)]
    /\ UNCHANGED <<now, quizzes, assignments, attempts, answers, results,
                   lock, sweep_runs>>
    /\ UNCHANGED <<refresh_tokens, issued>>

\* the check of lines 115-120 on the quiz row read at line 90
MaxAttemptsReached(quiz, attempt_count) ==
    quiz.max_attempts # None /\ attempt_count >= quiz.max_attempts

start_attempt_count(p) ==
    /\ sess[p].pc = "start_count"
    /\ sess' = [sess EXCEPT ![p] =
          IF MaxAttemptsReached(sess[p].quiz,
                                count_user_attempts(sess[p].user, sess[p].quiz_id))
          THEN Done(sess[p], "MaxAttemptsReachedException")
          ELSE [sess[p] EXCEPT !.pc = "start_create"]]
    /\ UNCHANGED <<now, quizzes, assignments, attempts, answers, results,
                   lock, sweep_runs, requests>>
    /\ UNCHANGED <<refresh_tokens, issued>>

\* AttemptRepository.create, with expires_at of line 123
NewAttempt(quiz_id, user_id, expires_at) ==
    [quiz_id |-> quiz_id, user_id |-> user_id, started_at |-> now,
     expires_at |-> expires_at, submitted_at |-> None, is_submitted |-> FALSE,
     time_taken_seconds |-> None, status |-> "in_progress"]

start_attempt_create(p) ==
    /\ sess[p].pc = "start_create"
    /\ attempts' = Append(attempts,
          NewAttempt(sess[p].quiz_id, sess[p].user,
                     now + sess[p].quiz.duration_minutes))
    /\ lock' = Append(lock, "free")
    /\ sess' = [sess EXCEPT ![p] =
          Done([sess[p] EXCEPT !.attempt_id = Len(attempts) + 1], "ok")]
    /\ UNCHANGED <<now, quizzes, assignments, answers, results, sweep_runs, requests>>
    /\ UNCHANGED <<refresh_tokens, issued>>

(***************************************************************************)
(* POST /attempts/{id}/answers -> AttemptService.submit_answer             *)
(***************************************************************************)
\* (mutant) submit_answer without the expiry check of lines 167-175
AnswerChecks_no_expiry(user_id, attempt_id) ==
    IF attempt_id \notin Ids(attempts) THEN "AttemptNotFoundException"
    ELSE IF attempts[attempt_id].user_id # user_id THEN "HTTP_403_FORBIDDEN"
    ELSE IF attempts[attempt_id].is_submitted THEN "AlreadySubmittedException"
    ELSE "pass"

\* (mutant) submit_answer without the is_submitted check of lines 160-164
AnswerChecks_unguarded(user_id, attempt_id) ==
    IF attempt_id \notin Ids(attempts) THEN "AttemptNotFoundException"
    ELSE IF attempts[attempt_id].user_id # user_id THEN "HTTP_403_FORBIDDEN"
    ELSE IF now > attempts[attempt_id].expires_at THEN "expired"
    ELSE "pass"

\* (mutant) submit_answer without the router's ownership check
AnswerChecks_any_user(user_id, attempt_id) ==
    IF attempt_id \notin Ids(attempts) THEN "AttemptNotFoundException"
    ELSE IF attempts[attempt_id].is_submitted THEN "AlreadySubmittedException"
    ELSE IF now > attempts[attempt_id].expires_at THEN "expired"
    ELSE "pass"

\* how the router's ownership check and lines 156-175 end
AnswerChecks(user_id, attempt_id) ==
    IF attempt_id \notin Ids(attempts) THEN "AttemptNotFoundException"
    ELSE IF attempts[attempt_id].user_id # user_id THEN "HTTP_403_FORBIDDEN"
    ELSE IF attempts[attempt_id].is_submitted THEN "AlreadySubmittedException"
    ELSE IF now > attempts[attempt_id].expires_at THEN "expired"
    ELSE "pass"

submit_answer_check(p, user_id, attempt_id, question_id, selected_answer) ==
    /\ Free(p)
    /\ requests' = requests + 1
    /\ LET end == AnswerChecks(user_id, attempt_id)
           call == [Idle EXCEPT !.op = "submit_answer", !.user = user_id,
                                !.attempt_id = attempt_id,
                                !.question_id = question_id,
                                !.selected_answer = selected_answer]
           loaded == [call EXCEPT !.attempt = attempts[attempt_id],
                                  !.quiz_id = attempts[attempt_id].quiz_id,
                                  !.answers = LoadAnswers(attempt_id, 1)]
       IN sess' = [sess EXCEPT ![p] =
             CASE end = "pass" -> [loaded EXCEPT !.pc = "answer_select"]
               [] end = "expired" ->
                     [loaded EXCEPT !.pc = "submit_lock", !.late = TRUE]
               [] OTHER -> Done(call, end)]
    /\ UNCHANGED <<now, quizzes, assignments, attempts, answers, results,
                   lock, sweep_runs>>
    /\ UNCHANGED <<refresh_tokens, issued>>

\* AttemptRepository.create_answer, lines 96-104: the existing row
submit_answer_select(p) ==
    /\ sess[p].pc = "answer_select"
    /\ LET rows == AnswerRows(sess[p].attempt_id, sess[p].question_id)
       IN sess' = [sess EXCEPT ![p] =
             IF Cardinality(rows) > 1 THEN Done(sess[p], "MultipleResultsFound")
             ELSE IF rows = {} THEN [sess[p] EXCEPT !.pc = "answer_commit"]
             ELSE [sess[p] EXCEPT !.pc = "answer_commit",
                                  !.existing = CHOOSE i \in rows : TRUE]]
    /\ UNCHANGED <<now, quizzes, assignments, attempts, answers, results,
                   lock, sweep_runs, requests>>
    /\ UNCHANGED <<refresh_tokens, issued>>

\* (mutant) create_answer that inserts a row on every call
create_answer_insert_only(existing, attempt_id, question_id, selected_answer) ==
    Append(answers,
           [attempt_id |-> attempt_id, question_id |-> question_id,
            selected_answer |-> selected_answer, is_correct |-> "None"])

\* lines 106-124: overwrite the existing row, or insert a new one; commit
create_answer(existing, attempt_id, question_id, selected_answer) ==
    IF existing # 0
    THEN [answers EXCEPT ![existing].selected_answer = selected_answer]
    ELSE Append(answers,
                [attempt_id |-> attempt_id, question_id |-> question_id,
                 selected_answer |-> selected_answer, is_correct |-> "None"])

submit_answer_commit(p) ==
    /\ sess[p].pc = "answer_commit"
    /\ answers' = create_answer(sess[p].existing, sess[p].attempt_id,
                                sess[p].question_id, sess[p].selected_answer)
    /\ sess' = [sess EXCEPT ![p] = Done(sess[p], "ok")]
    /\ UNCHANGED <<now, quizzes, assignments, attempts, results, lock,
                   sweep_runs, requests>>
    /\ UNCHANGED <<refresh_tokens, issued>>


(***************************************************************************)
(* POST /attempts/{id}/submit -> AttemptService.submit_attempt             *)
(***************************************************************************)
\* how the router's get_attempt and ownership check end
SubmitChecks(user_id, attempt_id) ==
    IF attempt_id \notin Ids(attempts) THEN "AttemptNotFoundException"
    ELSE IF attempts[attempt_id].user_id # user_id THEN "HTTP_403_FORBIDDEN"
    ELSE "pass"

submit_quiz_check(p, user_id, attempt_id) ==
    /\ Free(p)
    /\ requests' = requests + 1
    /\ LET end == SubmitChecks(user_id, attempt_id)
           call == [Idle EXCEPT !.op = "submit_quiz", !.user = user_id,
                                !.attempt_id = attempt_id]
       IN sess' = [sess EXCEPT ![p] =
             IF end = "pass"
             THEN [call EXCEPT !.pc = "submit_lock",
                               !.attempt = attempts[attempt_id],
                               !.quiz_id = attempts[attempt_id].quiz_id,
                               !.answers = LoadAnswers(attempt_id, 1)]
             ELSE Done(call, end)]
    /\ UNCHANGED <<now, quizzes, assignments, attempts, answers, results,
                   lock, sweep_runs>>
    /\ UNCHANGED <<refresh_tokens, issued>>

\* AttemptRepository.get_for_update: the row lock is granted when no other
\* transaction holds it
get_for_update(p, attempt_id) == lock[attempt_id] = "free"

\* submit_attempt lines 199-213: lock the row, check is_submitted on the
\* attempt the session holds, take the time, score the answers it holds
submit_attempt_lock(p) ==
    /\ sess[p].pc = "submit_lock"
    /\ get_for_update(p, sess[p].attempt_id)
    /\ IF sess[p].attempt.is_submitted
       THEN /\ sess' = [sess EXCEPT ![p] = Done(sess[p], "AlreadySubmittedException")]
            /\ UNCHANGED lock
       ELSE /\ lock' = [lock EXCEPT ![sess[p].attempt_id] = p]
            /\ sess' = [sess EXCEPT ![p] =
                  [sess[p] EXCEPT
                     !.pc = "submit_result",
                     !.time_taken_seconds = now - sess[p].attempt.started_at,
                     !.score_data =
                        calculate_score(sess[p].answers, sess[p].quiz_id,
                                        quizzes[sess[p].quiz_id].passing_score)]]
    /\ UNCHANGED <<now, quizzes, assignments, attempts, answers, results,
                   sweep_runs, requests>>
    /\ UNCHANGED <<refresh_tokens, issued>>

\* (mutant) results.attempt_id without its unique index
UniqueViolation_dropped(attempt_id) == FALSE

\* Result.attempt_id is unique: the INSERT of a second row for the attempt
\* raises IntegrityError
UniqueViolation(attempt_id) == ResultRows(attempt_id) # {}

\* the is_correct flags calculate_score has set on the session's answers,
\* as the flush of the commit writes them
RECURSIVE FlushMarks(_, _, _)
FlushMarks(table, anss, quiz_id) ==
    IF anss = <<>> THEN table
    ELSE LET a == Head(anss)
             mark == AnswerMark(a, quiz_id)
         IN FlushMarks(IF mark = "None" THEN table
                       ELSE [table EXCEPT ![a.id].is_correct = mark],
                       Tail(anss), quiz_id)

\* ResultRepository.create: the first commit of submit_attempt
NewResult(s) ==
    [attempt_id |-> s.attempt_id, user_id |-> s.attempt.user_id,
     quiz_id |-> s.attempt.quiz_id, score |-> s.score_data.score,
     total_points |-> s.score_data.total_points,
     percentage |-> s.score_data.percentage, passed |-> s.score_data.passed,
     rank |-> None, created_at |-> now]

submit_attempt_result(p) ==
    /\ sess[p].pc = "submit_result"
    /\ lock' = [lock EXCEPT ![sess[p].attempt_id] = "free"]
    /\ IF UniqueViolation(sess[p].attempt_id)
       THEN /\ sess' = [sess EXCEPT ![p] = Done(sess[p], "IntegrityError")]
            /\ UNCHANGED <<results, answers>>
       ELSE /\ results' = Append(results, NewResult(sess[p]))
            /\ answers' = FlushMarks(answers, sess[p].answers, sess[p].quiz_id)
            /\ sess' = [sess EXCEPT ![p] =
                  [sess[p] EXCEPT !.pc = "submit_update",
                                  !.result_id = Len(results) + 1]]
    /\ UNCHANGED <<now, quizzes, assignments, attempts, sweep_runs, requests>>
    /\ UNCHANGED <<refresh_tokens, issued>>

\* lines 226-231 and AttemptRepository.update: the second commit.  The UPDATE
\* of the row waits for a row lock another transaction holds.
SubmittedAttempt(row, time_taken_seconds) ==
    [row EXCEPT !.is_submitted = TRUE, !.submitted_at = now,
                !.time_taken_seconds = time_taken_seconds,
                !.status = "submitted"]

\* (mutant) a hand-off made before the commit of the update: a failure
\* leaves the session to be closed with the update pending
AfterSendTask_uncommitted(before, committed, delivered) ==
    IF delivered THEN committed ELSE before

\* lines 236-246: celery_app.send_task runs after both commits; the attempts
\* table when it returns (delivered) or raises
AfterSendTask(before, committed, delivered) == committed

\* how the call ends: send_task raises when the broker does not take the
\* message, and nothing catches it
SubmitOutcome(s, delivered) ==
    IF ~delivered THEN "OperationalError"
    ELSE IF s.late THEN "QuizExpiredException" ELSE "ok"

\* Broker: what the broker may do with the message (TRUE: take it)
submit_attempt_update(p, Broker) ==
    /\ sess[p].pc = "submit_update"
    /\ lock[sess[p].attempt_id] = "free"
    /\ \E delivered \in Broker :
          /\ attempts' = AfterSendTask(attempts,
                [attempts EXCEPT ![sess[p].attempt_id] =
                    SubmittedAttempt(@, sess[p].time_taken_seconds)],
                delivered)
          /\ sess' = [sess EXCEPT ![p] =
                Done(sess[p], SubmitOutcome(sess[p], delivered))]
    /\ UNCHANGED <<now, quizzes, assignments, answers, results, lock,
                   sweep_runs, requests>>
    /\ UNCHANGED <<refresh_tokens, issued>>

(***************************************************************************)
(* POST /quizzes/{id}/assign and DELETE /quizzes/{id}/assignments/{user}   *)
(***************************************************************************)
\* the rows of (quiz, user) in quiz_assignments, active or not
AssignmentRows(quiz_id, user_id) ==
    {i \in Ids(assignments) :
        assignments[i].quiz_id = quiz_id /\ assignments[i].user_id = user_id}

\* QuizService.assign_quiz for one user: the quiz must exist; then
\* QuizRepository.assign_quiz lines 159-168, the existing row
assign_quiz_select(p, quiz_id, user_id, due_date) ==
    /\ Free(p)
    /\ requests' = requests + 1
    /\ LET call == [Idle EXCEPT !.op = "assign_quiz", !.user = user_id,
                                !.quiz_id = quiz_id, !.due_date = due_date]
           rows == AssignmentRows(quiz_id, user_id)
       IN sess' = [sess EXCEPT ![p] =
             IF quiz_id \notin DOMAIN quizzes
             THEN Done(call, "QuizNotFoundException")
             ELSE IF Cardinality(rows) > 1
             THEN Done(call, "MultipleResultsFound")
             ELSE [call EXCEPT !.pc = "assign_commit",
                               !.existing = IF rows = {} THEN 0
                                            ELSE CHOOSE i \in rows : TRUE]]
    /\ UNCHANGED <<now, quizzes, assignments, attempts, answers, results,
                   lock, sweep_runs>>
    /\ UNCHANGED <<refresh_tokens, issued>>

\* (mutant) a re-assignment that re-activates the row and keeps its due date
assign_quiz_keeps_due_date(existing, quiz_id, user_id, due_date) ==
    IF existing # 0
    THEN [assignments EXCEPT ![existing].is_active = TRUE]
    ELSE Append(assignments,
                [quiz_id |-> quiz_id, user_id |-> user_id, is_active |-> TRUE,
                 due_date |-> due_date])

\* lines 170-187: re-activate the existing row with the new due date, or
\* insert a row; commit
assign_quiz(existing, quiz_id, user_id, due_date) ==
    IF existing # 0
    THEN [assignments EXCEPT ![existing].is_active = TRUE,
                             ![existing].due_date = due_date]
    ELSE Append(assignments,
                [quiz_id |-> quiz_id, user_id |-> user_id, is_active |-> TRUE,
                 due_date |-> due_date])

assign_quiz_commit(p) ==
    /\ sess[p].pc = "assign_commit"
    /\ assignments' = assign_quiz(sess[p].existing, sess[p].quiz_id,
                                  sess[p].user, sess[p].due_date)
    /\ sess' = [sess EXCEPT ![p] = Done(sess[p], "ok")]
    /\ UNCHANGED <<now, quizzes, attempts, answers, results, lock, sweep_runs,
                   requests>>
    /\ UNCHANGED <<refresh_tokens, issued>>

\* QuizRepository.revoke_assignment lines 204-212
revoke_assignment_select(p, quiz_id, user_id) ==
    /\ Free(p)
    /\ requests' = requests + 1
    /\ LET call == [Idle EXCEPT !.op = "revoke_assignment", !.user = user_id,
                                !.quiz_id = quiz_id]
           rows == AssignmentRows(quiz_id, user_id)
       IN sess' = [sess EXCEPT ![p] =
             IF Cardinality(rows) > 1 THEN Done(call, "MultipleResultsFound")
             ELSE IF rows = {} THEN Done(call, "ok")
             ELSE [call EXCEPT !.pc = "revoke_commit",
                               !.existing = CHOOSE i \in rows : TRUE]]
    /\ UNCHANGED <<now, quizzes, assignments, attempts, answers, results,
                   lock, sweep_runs>>
    /\ UNCHANGED <<refresh_tokens, issued>>

\* lines 214-218
revoke_assignment_commit(p) ==
    /\ sess[p].pc = "revoke_commit"
    /\ assignments' = [assignments EXCEPT ![sess[p].existing].is_active = FALSE]
    /\ sess' = [sess EXCEPT ![p] = Done(sess[p], "ok")]
    /\ UNCHANGED <<now, quizzes, attempts, answers, results, lock, sweep_runs,
                   requests>>
    /\ UNCHANGED <<refresh_tokens, issued>>

(***************************************************************************)
(* The periodic task, the clock, and the end of a request                  *)
(***************************************************************************)
\* attempt_worker.auto_submit_expired_attempts: logs and returns success
auto_submit_expired_attempts ==
    /\ sweep_runs' = 1 - sweep_runs
    /\ UNCHANGED <<now, quizzes, assignments, attempts, answers, results,
                   lock, requests, sess>>
    /\ UNCHANGED <<refresh_tokens, issued>>

Tick ==
    /\ now < MaxTime
    /\ now' = now + 1
    /\ UNCHANGED <<quizzes, assignments, attempts, answers, results, lock,
                   sweep_runs, requests, sess>>
    /\ UNCHANGED <<refresh_tokens, issued>>

(***************************************************************************)
(* The clients.  A request is sent while the bounds leave room for what it *)
(* may add: the request itself, a row of attempts, a row of answers.       *)
(***************************************************************************)
StartsInFlight ==
    Cardinality({r \in Procs : sess[r].pc \in {"start_count", "start_create"}})

AttemptRoom(user_id, quiz_id, cap) ==
    StartChecks(user_id, quiz_id) = "pass"
        => Len(attempts) + StartsInFlight < cap

InsertsInFlight ==
    Cardinality({r \in Procs : sess[r].pc \in {"answer_select", "answer_commit"}
                               /\ sess[r].existing = 0})

AnswerRoom(user_id, attempt_id, question_id, cap) ==
    (AnswerChecks(user_id, attempt_id) = "pass"
     /\ AnswerRows(attempt_id, question_id) = {})
        => Len(answers) + InsertsInFlight < cap

\* One step of handler p, its inputs drawn from the sets U (users), Q (quiz
\* ids), A (attempt ids), K (question ids) and X (selected answers); Broker
\* is what the task queue may do with a message handed to it.
Step(p, U, Q, A, K, X, Broker, maxRequests, maxAttempts, maxAnswers) ==
    \/ \E u \in U, q \in Q :
          /\ requests < maxRequests
          /\ AttemptRoom(u, q, maxAttempts)
          /\ start_attempt_check(p, u, q)
    \/ start_attempt_count(p)
    \/ start_attempt_create(p)
    \/ \E u \in U, a \in A, k \in K, x \in X :
          /\ requests < maxRequests
          /\ AnswerRoom(u, a, k, maxAnswers)
          /\ submit_answer_check(p, u, a, k, x)
    \/ submit_answer_select(p)
    \/ submit_answer_commit(p)
    \/ \E u \in U, a \in A :
          /\ requests < maxRequests
          /\ submit_quiz_check(p, u, a)
    \/ submit_attempt_lock(p)
    \/ submit_attempt_result(p)
    \/ submit_attempt_update(p, Broker)

(***************************************************************************)
(* Spec: two handlers run concurrently for one user on the public quiz.    *)
(***************************************************************************)
Next ==
    \/ \E p \in Procs :
          Step(p, {"u1"}, {"q1"}, 1..MaxAttempts, {"k1"}, Choices, {TRUE},
               MaxRequests, MaxAttempts, MaxAnswers)
    \/ auto_submit_expired_attempts
    \/ Tick

Spec == Init /\ [][Next]_vars

(***************************************************************************)
(* SeqSpec: requests are served one at a time (one handler); the user      *)
(* starts either quiz and answers any question of the question table.      *)
(***************************************************************************)
SeqNext ==
    \/ Step("p1", {"u1"}, {"q1", "q2"}, 1..MaxAttempts, QuestionIds,
            Choices, {TRUE}, MaxRequests, MaxAttempts, MaxAnswers)
    \/ Tick

SeqSpec == Init /\ [][SeqNext]_vars

(***************************************************************************)
(* OwnerSpec: both users call, one request at a time, on the public quiz   *)
(* and on any attempt, their own or not; the broker may refuse a message.  *)
(***************************************************************************)
OwnerNext ==
    \/ Step("p1", Users, {"q1"}, 1..MaxAttempts, {"k1"}, {<<"a">>}, BOOLEAN,
            MaxRequests, MaxAttempts, MaxAnswers)
    \/ Tick

OwnerSpec == Init /\ [][OwnerNext]_vars

(***************************************************************************)
(* AccessSpec: the admin assigns and revokes, the users start attempts;    *)
(* requests are served one at a time.                                      *)
(***************************************************************************)
DueDates == {None, 1}

AccessNext ==
    \/ \E q \in {"q1", "q2"}, u \in Users, d \in DueDates :
          /\ requests < MaxRequests
          /\ assign_quiz_select("p1", q, u, d)
    \/ assign_quiz_commit("p1")
    \/ \E q \in {"q1", "q2"}, u \in Users :
          /\ requests < MaxRequests
          /\ revoke_assignment_select("p1", q, u)
    \/ revoke_assignment_commit("p1")
    \/ \E u \in Users, q \in QuizIds \cup {"q0"} :
          /\ requests < MaxRequests
          /\ AttemptRoom(u, q, MaxAttempts)
          /\ start_attempt_check("p1", u, q)
    \/ start_attempt_count("p1")
    \/ start_attempt_create("p1")
    \/ Tick

AccessSpec == Init /\ [][AccessNext]_vars

(***************************************************************************)
(* AssignSpec: two admin requests at a time assign and revoke the          *)
(* non-public quiz.                                                        *)
(***************************************************************************)
AssignNext ==
    \E p \in Procs :
        \/ \E u \in Users, d \in DueDates :
              /\ requests < MaxRequests
              /\ assign_quiz_select(p, "q2", u, d)
        \/ assign_quiz_commit(p)
        \/ \E u \in Users :
              /\ requests < MaxRequests
              /\ revoke_assignment_select(p, "q2", u)
        \/ revoke_assignment_commit(p)

AssignSpec == Init /\ [][AssignNext]_vars

(***************************************************************************)
(* AssignedSpec: two handlers run concurrently for the assigned user on    *)
(* the non-public quiz, whose one question is worth all its points.        *)
(***************************************************************************)
AssignedNext ==
    \/ \E p \in Procs :
          Step(p, {"u1"}, {"q2"}, 1..MaxAttempts, {"k3"}, {<<"a">>}, {TRUE},
               MaxRequests, MaxAttempts, MaxAnswers)
    \/ Tick

AssignedSpec == Init /\ [][AssignedNext]_vars

(***************************************************************************)
(* FairSpec: Spec, with the beat schedule running the expiry task again    *)
(* and again.                                                              *)
(***************************************************************************)
FairSpec == Spec /\ WF_vars(auto_submit_expired_attempts)

(***************************************************************************)
(* PUT /quizzes/{id} and POST /quizzes/{id}/publish                        *)
(***************************************************************************)
QuizChanges ==
    {[NoChanges EXCEPT !.duration_minutes = 2],
     [NoChanges EXCEPT !.max_attempts = 2]}

\* QuizService.update_quiz lines 131-138: the quiz is read, a published
\* quiz is not edited
update_quiz_check(p, quiz_id, changes) ==
    /\ Free(p)
    /\ requests' = requests + 1
    /\ LET call == [Idle EXCEPT !.op = "update_quiz", !.quiz_id = quiz_id,
                                !.changes = changes]
       IN sess' = [sess EXCEPT ![p] =
             IF quiz_id \notin DOMAIN quizzes
             THEN Done(call, "QuizNotFoundException")
             ELSE IF quizzes[quiz_id].is_published
             THEN Done(call, "InvalidOperationException")
             ELSE [call EXCEPT !.pc = "update_commit",
                               !.quiz = quizzes[quiz_id]]]
    /\ UNCHANGED <<now, quizzes, assignments, attempts, answers, results,
                   lock, sweep_runs>>
    /\ UNCHANGED <<refresh_tokens, issued>>

\* the row after the UPDATE of the columns the call has set
UpdatedQuiz(row, changes) ==
    [row EXCEPT
        !.duration_minutes = IF changes.duration_minutes # None
                             THEN changes.duration_minutes ELSE @,
        !.max_attempts = IF changes.max_attempts # None
                         THEN changes.max_attempts ELSE @]

\* lines 140-157 and QuizRepository.update: the commit
update_quiz_commit(p) ==
    /\ sess[p].pc = "update_commit"
    /\ quizzes' = [quizzes EXCEPT ![sess[p].quiz_id] =
                      UpdatedQuiz(@, sess[p].changes)]
    /\ sess' = [sess EXCEPT ![p] = Done(sess[p], "ok")]
    /\ UNCHANGED <<now, assignments, attempts, answers, results, lock,
                   sweep_runs, requests>>
    /\ UNCHANGED <<refresh_tokens, issued>>

\* QuizService.publish_quiz and QuizRepository.publish: what the commit
\* writes does not depend on what was read, the two are one step
publish_quiz(p, quiz_id) ==
    /\ Free(p)
    /\ requests' = requests + 1
    /\ LET call == [Idle EXCEPT !.op = "publish_quiz", !.quiz_id = quiz_id]
       IN IF quiz_id \notin DOMAIN quizzes
          THEN /\ sess' = [sess EXCEPT ![p] = Done(call, "QuizNotFoundException")]
               /\ UNCHANGED quizzes
          ELSE /\ quizzes' = [quizzes EXCEPT ![quiz_id].is_published = TRUE]
               /\ sess' = [sess EXCEPT ![p] = Done(call, "ok")]
    /\ UNCHANGED <<now, assignments, attempts, answers, results, lock,
                   sweep_runs>>
    /\ UNCHANGED <<refresh_tokens, issued>>

\* two administrators edit and publish quizzes at once
QuizNext ==
    \E p \in Procs :
        \/ /\ requests < MaxRequests
           /\ \E q \in {"q0", "q1", "q3"} :
                 \/ \E c \in QuizChanges : update_quiz_check(p, q, c)
                 \/ publish_quiz(p, q)
        \/ update_quiz_commit(p)

QuizSpec == Init /\ [][QuizNext]_vars

(***************************************************************************)
(* Authentication: POST /auth/login, /auth/refresh, /auth/logout and       *)
(* GET /auth/me.  A JWT is its payload; only tokens the server has signed  *)
(* (issued) pass the signature check, so only those are presented.         *)
(***************************************************************************)
ACCESS_TOKEN_EXPIRE == 1      \* settings.ACCESS_TOKEN_EXPIRE_MINUTES, in ticks
REFRESH_TOKEN_EXPIRE == 2     \* settings.REFRESH_TOKEN_EXPIRE_DAYS, in ticks

\* the jti is random: no two tokens share one
create_access_token(sub, jti) ==
    [type |-> "access", sub |-> sub, exp |-> now + ACCESS_TOKEN_EXPIRE,
     jti |-> jti]

create_refresh_token(sub, jti) ==
    [type |-> "refresh", sub |-> sub, exp |-> now + REFRESH_TOKEN_EXPIRE,
     jti |-> jti]

\* decode_token raises JWTError on a token whose exp has passed
JWTError(token) == token.exp < now

\* SHA-256 of the token: equal hashes for equal tokens only
hash_token(token) == <<"sha256", token>>

\* UserRepository.get_refresh_token: the unrevoked rows with the hash
get_refresh_token(token_hash) ==
    {i \in Ids(refresh_tokens) :
        refresh_tokens[i].token_hash = token_hash /\ ~refresh_tokens[i].is_revoked}

\* UserRepository.create_refresh_token
NewRefreshToken(user_id, token_hash, expires_at) ==
    [user_id |-> user_id, token_hash |-> token_hash, expires_at |-> expires_at,
     is_revoked |-> FALSE]

\* UserRepository.revoke_refresh_token: the table after the commit
revoke_refresh_token(token_hash) ==
    [i \in Ids(refresh_tokens) |->
        IF refresh_tokens[i].token_hash = token_hash
        THEN [refresh_tokens[i] EXCEPT !.is_revoked = TRUE]
        ELSE refresh_tokens[i]]

\* UserRepository.revoke_all_user_tokens: the table after the commit
revoke_all_user_tokens(user_id) ==
    [i \in Ids(refresh_tokens) |->
        IF refresh_tokens[i].user_id = user_id
        THEN [refresh_tokens[i] EXCEPT !.is_revoked = TRUE]
        ELSE refresh_tokens[i]]

\* AuthService.get_current_user behind the get_current_user dependency:
\* the token decodes and its user exists, or 401
get_current_user(token) ==
    IF JWTError(token) \/ token.sub \notin Users
    THEN "HTTP_401_UNAUTHORIZED" ELSE "ok"

\* AuthService.login with valid credentials: both tokens, the refresh
\* token stored by its hash
login(p, user_id) ==
    /\ Free(p)
    /\ requests' = requests + 1
    /\ LET access_token == create_access_token(user_id, Len(issued) + 1)
           refresh_token == create_refresh_token(user_id, Len(issued) + 2)
       IN /\ refresh_tokens' = Append(refresh_tokens,
                NewRefreshToken(user_id, hash_token(refresh_token),
                                now + REFRESH_TOKEN_EXPIRE))
          /\ issued' = issued \o <<access_token, refresh_token>>
          /\ sess' = [sess EXCEPT ![p] =
                Done([Idle EXCEPT !.op = "login", !.user = user_id], "ok")]
    /\ UNCHANGED <<now, quizzes, assignments, attempts, answers, results,
                   lock, sweep_runs>>

\* AuthService.refresh_tokens lines 118-139: decode, look the token up,
\* check its expiry, get the user
refresh_tokens_check(p, refresh_token) ==
    /\ Free(p)
    /\ requests' = requests + 1
    /\ LET call == [Idle EXCEPT !.op = "refresh_tokens",
                                !.user = refresh_token.sub,
                                !.token = refresh_token]
           rows == get_refresh_token(hash_token(refresh_token))
           expired == /\ ~JWTError(refresh_token)
                      /\ rows # {}
                      /\ \E i \in rows : refresh_tokens[i].expires_at < now
       IN /\ sess' = [sess EXCEPT ![p] =
                IF JWTError(refresh_token) THEN Done(call, "InvalidTokenException")
                ELSE IF rows = {} THEN Done(call, "InvalidTokenException")
                ELSE IF expired THEN Done(call, "TokenExpiredException")
                ELSE IF refresh_token.sub \notin Users
                     THEN Done(call, "InvalidTokenException")
                ELSE [call EXCEPT !.pc = "refresh_revoke"]]
          /\ refresh_tokens' = IF expired
                               THEN revoke_refresh_token(hash_token(refresh_token))
                               ELSE refresh_tokens
    /\ UNCHANGED <<now, quizzes, assignments, attempts, answers, results,
                   lock, sweep_runs, issued>>

\* line 142: the old token is revoked (first commit)
refresh_tokens_revoke(p) ==
    /\ sess[p].pc = "refresh_revoke"
    /\ refresh_tokens' = revoke_refresh_token(hash_token(sess[p].token))
    /\ sess' = [sess EXCEPT ![p].pc = "refresh_create"]
    /\ UNCHANGED <<now, quizzes, assignments, attempts, answers, results,
                   lock, sweep_runs, requests, issued>>

\* lines 144-157: the new tokens, the new refresh token stored (second
\* commit)
refresh_tokens_create(p) ==
    /\ sess[p].pc = "refresh_create"
    /\ LET new_access_token == create_access_token(sess[p].user, Len(issued) + 1)
           new_refresh_token == create_refresh_token(sess[p].user, Len(issued) + 2)
       IN /\ refresh_tokens' = Append(refresh_tokens,
                NewRefreshToken(sess[p].user, hash_token(new_refresh_token),
                                now + REFRESH_TOKEN_EXPIRE))
          /\ issued' = issued \o <<new_access_token, new_refresh_token>>
    /\ sess' = [sess EXCEPT ![p] = Done(sess[p], "ok")]
    /\ UNCHANGED <<now, quizzes, assignments, attempts, answers, results,
                   lock, sweep_runs, requests>>

\* POST /auth/logout with a bearer token: the user's refresh tokens are
\* revoked
logout(p, token) ==
    /\ Free(p)
    /\ requests' = requests + 1
    /\ LET call == [Idle EXCEPT !.op = "logout", !.user = token.sub,
                                !.token = token]
       IN /\ sess' = [sess EXCEPT ![p] = Done(call, get_current_user(token))]
          /\ refresh_tokens' = IF get_current_user(token) = "ok"
                               THEN revoke_all_user_tokens(token.sub)
                               ELSE refresh_tokens
    /\ UNCHANGED <<now, quizzes, assignments, attempts, answers, results,
                   lock, sweep_runs, issued>>

\* GET /auth/me with a bearer token
get_current_user_info(p, token) ==
    /\ Free(p)
    /\ requests' = requests + 1
    /\ sess' = [sess EXCEPT ![p] =
          Done([Idle EXCEPT !.op = "get_current_user_info",
                            !.user = token.sub, !.token = token],
               get_current_user(token))]
    /\ UNCHANGED <<now, quizzes, assignments, attempts, answers, results,
                   lock, sweep_runs, refresh_tokens, issued>>

\* the tokens the clients hold
Held == {issued[i] : i \in Ids(issued)}

AuthNext ==
    \/ \E p \in Procs :
          \/ /\ requests < MaxRequests
             /\ \/ login(p, "u1")
                \/ \E token \in Held :
                      \/ refresh_tokens_check(p, token)
                      \/ logout(p, token)
                      \/ get_current_user_info(p, token)
          \/ refresh_tokens_revoke(p)
          \/ refresh_tokens_create(p)
    \/ Tick

AuthSpec == Init /\ [][AuthNext]_vars

(***************************************************************************)
(* The scoring arithmetic on its own: the inputs of lines 64-68 are drawn  *)
(* from sets, one step computes percentage and passed from them.           *)
(***************************************************************************)
ScoreTotals == {2, 3, 50}
PassingScores == {0, 50, 58, 100}

ScoreInit ==
    /\ now = 0
    /\ quizzes = InitQuizzes
    /\ assignments = InitAssignments
    /\ attempts = <<>>
    /\ answers = <<>>
    /\ results = <<>>
    /\ lock = <<>>
    /\ sweep_runs = 0
    /\ requests = 0
    /\ refresh_tokens = <<>>
    /\ issued = <<>>
    /\ \E t \in ScoreTotals, ps \in PassingScores : \E s \in 0..t :
          sess = [p \in Procs |->
                    IF p = "p1"
                    THEN [Idle EXCEPT !.pc = "score",
                                      !.op = "calculate_score",
                                      !.quiz.passing_score = ps,
                                      !.score_data.score = s,
                                      !.score_data.total_points = t]
                    ELSE Idle]

\* lines 64-75 of calculate_score
score_percentage(p) ==
    /\ sess[p].pc = "score"
    /\ sess' = [sess EXCEPT ![p] =
          [sess[p] EXCEPT
              !.pc = "scored",
              !.score_data.percentage =
                  RoundedPercentage(sess[p].score_data.score,
                                    sess[p].score_data.total_points),
              !.score_data.passed =
                  Passed(sess[p].score_data.score,
                         sess[p].score_data.total_points,
                         sess[p].quiz.passing_score)]]
    /\ UNCHANGED <<now, quizzes, assignments, attempts, answers, results,
                   lock, sweep_runs, requests>>
    /\ UNCHANGED <<refresh_tokens, issued>>

ScoreNext == \E p \in Procs : score_percentage(p)

ScoreSpec == ScoreInit /\ [][ScoreNext]_vars

(***************************************************************************)
(* _check_answer on its own: the two strings and the question type are     *)
(* drawn from sets, one step applies the function.                         *)
(***************************************************************************)
Alphabet == {"a", "A", "b", " "}
QuestionTypes == {"mcq", "true_false"}

\* the strings over Alphabet of at most n characters
RECURSIVE Strings(_)
Strings(n) ==
    IF n = 0 THEN {<<>>}
    ELSE LET shorter == Strings(n - 1)
         IN shorter \cup {Append(x, c) : x \in shorter, c \in Alphabet}

CheckInit ==
    /\ now = 0
    /\ quizzes = InitQuizzes
    /\ assignments = InitAssignments
    /\ attempts = <<>>
    /\ answers = <<>>
    /\ results = <<>>
    /\ lock = <<>>
    /\ sweep_runs = 0
    /\ requests = 0
    /\ refresh_tokens = <<>>
    /\ issued = <<>>
    /\ \E x \in Strings(MaxLen), y \in Strings(MaxLen), t \in QuestionTypes :
          sess = [p \in Procs |->
                    [pc |-> IF p = "p1" THEN "check" ELSE "idle",
                     op |-> "_check_answer",
                     selected_answer |-> x, correct_answer |-> y,
                     question_type |-> t, is_correct |-> "None"]]

check_answer(p) ==
    /\ sess[p].pc = "check"
    /\ sess' = [sess EXCEPT ![p] =
          [sess[p] EXCEPT
              !.pc = "checked",
              !.is_correct =
                  IF _check_answer(sess[p].selected_answer,
                                   sess[p].correct_answer,
                                   sess[p].question_type)
                  THEN "True" ELSE "False"]]
    /\ UNCHANGED <<now, quizzes, assignments, attempts, answers, results,
                   lock, sweep_runs, requests>>
    /\ UNCHANGED <<refresh_tokens, issued>>

CheckNext == \E p \in Procs : check_answer(p)

CheckSpec == CheckInit /\ [][CheckNext]_vars

(***************************************************************************)
(* GET /leaderboard/quiz/{quiz_id}                                         *)
(***************************************************************************)
\* (mutant) ORDER BY score, created_at: the lowest score first
order_by_ascending(r1, r2) ==
    \/ results[r1].score < results[r2].score
    \/ /\ results[r1].score = results[r2].score
       /\ results[r1].created_at <= results[r2].created_at

\* order_by(desc(Result.score), Result.created_at): row r1 may stand before
\* row r2
order_by(r1, r2) ==
    \/ results[r1].score > results[r2].score
    \/ /\ results[r1].score = results[r2].score
       /\ results[r1].created_at <= results[r2].created_at

\* The answers the database may give to the query of lines 36-43: the rows
\* of the quiz in an order the ORDER BY allows (rows equal in score and
\* created_at come in any order), cut after `limit` rows.
select_leaderboard(quiz_id, limit) ==
    LET S == {i \in Ids(results) : results[i].quiz_id = quiz_id}
        n == Cardinality(S)
        sorted == {f \in [1..n -> S] :
                      /\ \A i, j \in 1..n : i # j => f[i] # f[j]
                      /\ \A i, j \in 1..n : i < j => order_by(f[i], f[j])}
    IN {SubSeq(f, 1, IF limit < n THEN limit ELSE n) : f \in sorted}

\* lines 48-60: one LeaderboardEntry per row, rank from enumerate(rows, 1)
LeaderboardEntries(rows) ==
    [rank \in 1..Len(rows) |->
        [rank |-> rank,
         user_id |-> results[rows[rank]].user_id,
         score |-> results[rows[rank]].score,
         total_points |-> results[rows[rank]].total_points,
         percentage |-> results[rows[rank]].percentage,
         submitted_at |-> results[rows[rank]].created_at]]

get_quiz_leaderboard(p, quiz_id, limit) ==
    /\ Free(p)
    /\ \E rows \in select_leaderboard(quiz_id, limit) :
          sess' = [sess EXCEPT ![p] =
             [Done([Idle EXCEPT !.op = "get_quiz_leaderboard",
                                !.quiz_id = quiz_id], "ok")
                EXCEPT !.limit = limit, !.rows = rows,
                       !.response = LeaderboardEntries(rows)]]
    /\ UNCHANGED <<now, quizzes, assignments, attempts, answers, results,
                   lock, sweep_runs, requests>>
    /\ UNCHANGED <<refresh_tokens, issued>>

(***************************************************************************)
(* The leaderboard on its own.  The tables are drawn as sittings leave     *)
(* them: every sitting is a submitted attempt with its answers and its     *)
(* Result; a sitting names who sat which quiz, when the Result was         *)
(* created, and the questions answered correctly.                          *)
(***************************************************************************)
QuestionOrder == <<"k1", "k2", "k3">>

Sittings ==
    {[user_id |-> uq[1], quiz_id |-> uq[2], created_at |-> t, correct |-> K] :
        uq \in {<<"u1", "q1">>, <<"u2", "q1">>, <<"u1", "q2">>},
        t \in 0..1, K \in SUBSET QuestionIds}

\* q1 allows one attempt per user; questions answered belong to the quiz;
\* Results are created in the order of the clock
SittingsPossible(runs) ==
    /\ \A i \in DOMAIN runs : runs[i].correct \subseteq get_questions(runs[i].quiz_id)
    /\ \A i, j \in DOMAIN runs :
          i < j => /\ runs[i].created_at <= runs[j].created_at
                   /\ ~ (/\ runs[i].quiz_id = "q1" /\ runs[j].quiz_id = "q1"
                         /\ runs[i].user_id = runs[j].user_id)

SittingAnswers(attempt_id, K) ==
    LET ks == SelectSeq(QuestionOrder, LAMBDA k : k \in K)
    IN [i \in 1..Len(ks) |->
          [attempt_id |-> attempt_id, question_id |-> ks[i],
           selected_answer |-> Questions[ks[i]].correct_answer,
           is_correct |-> "True"]]

RECURSIVE SittingsAnswers(_, _)
SittingsAnswers(runs, i) ==
    IF i > Len(runs) THEN <<>>
    ELSE SittingAnswers(i, runs[i].correct) \o SittingsAnswers(runs, i + 1)

SittingAttempt(run) ==
    [quiz_id |-> run.quiz_id, user_id |-> run.user_id, started_at |-> 0,
     expires_at |-> InitQuizzes[run.quiz_id].duration_minutes,
     submitted_at |-> run.created_at, is_submitted |-> TRUE,
     time_taken_seconds |-> run.created_at, status |-> "submitted"]

SittingResult(attempt_id, run) ==
    LET score_data == calculate_score(SittingAnswers(attempt_id, run.correct),
                                      run.quiz_id,
                                      InitQuizzes[run.quiz_id].passing_score)
    IN [attempt_id |-> attempt_id, user_id |-> run.user_id,
        quiz_id |-> run.quiz_id, score |-> score_data.score,
        total_points |-> score_data.total_points,
        percentage |-> score_data.percentage, passed |-> score_data.passed,
        rank |-> None, created_at |-> run.created_at]

LeaderInit ==
    /\ now = 1
    /\ quizzes = InitQuizzes
    /\ assignments = InitAssignments
    /\ sweep_runs = 0
    /\ requests = 0
    /\ refresh_tokens = <<>>
    /\ issued = <<>>
    /\ sess = [p \in Procs |-> Idle]
    /\ \E n \in 0..MaxResults : \E runs \in [1..n -> Sittings] :
          /\ SittingsPossible(runs)
          /\ attempts = [i \in 1..n |-> SittingAttempt(runs[i])]
          /\ answers = SittingsAnswers(runs, 1)
          /\ results = [i \in 1..n |-> SittingResult(i, runs[i])]
          /\ lock = [i \in 1..n |-> "free"]

LeaderNext ==
    \E quiz_id \in {"q1", "q2", "q3"}, limit \in 0..MaxResults :
        get_quiz_leaderboard("p1", quiz_id, limit)

LeaderSpec == LeaderInit /\ [][LeaderNext]_vars

(***************************************************************************)
(* calculate_score on its own: the answers of one attempt in progress are  *)
(* drawn from sets (one row per answered question, a question of the quiz  *)
(* or not, no flag set), and the function is called again and again.  The  *)
(* relationship has no ORDER BY: each call gets the rows in some order.    *)
(***************************************************************************)
DrawnAnswers ==
    {f \in [QuestionIds -> Choices \cup {<<>>}] : TRUE}

\* the answers table holding one row per question f answers (<<>>: none)
AnswerTable(f) ==
    LET ks == SelectSeq(QuestionOrder, LAMBDA k : f[k] # <<>>)
    IN [i \in 1..Len(ks) |->
          [attempt_id |-> 1, question_id |-> ks[i],
           selected_answer |-> f[ks[i]], is_correct |-> "None"]]

RescoreInit ==
    /\ now = 0
    /\ quizzes = InitQuizzes
    /\ assignments = InitAssignments
    /\ results = <<>>
    /\ lock = <<"free">>
    /\ sweep_runs = 0
    /\ requests = 0
    /\ refresh_tokens = <<>>
    /\ issued = <<>>
    /\ sess = [p \in Procs |-> Idle]
    /\ \E q \in {"q1", "q2"}, f \in DrawnAnswers :
          /\ attempts = << NewAttempt(q, "u1", InitQuizzes[q].duration_minutes) >>
          /\ answers = AnswerTable(f)

\* the orders in which the answers relationship of the attempt may load
LoadedOrders(attempt_id) ==
    LET rows == LoadAnswers(attempt_id, 1)
        n == Len(rows)
    IN {[i \in 1..n |-> rows[g[i]]] :
          g \in {h \in [1..n -> 1..n] : \A i, j \in 1..n : i # j => h[i] # h[j]}}

\* ScoringService.calculate_score(attempt_id), the flags as a flush writes
\* them
calculate_score_call(p, attempt_id) ==
    /\ Free(p)
    /\ attempt_id \in Ids(attempts)
    /\ \E loaded \in LoadedOrders(attempt_id) :
          LET quiz_id == attempts[attempt_id].quiz_id
          IN /\ sess' = [sess EXCEPT ![p] =
                   [Done([Idle EXCEPT !.op = "calculate_score",
                                      !.attempt_id = attempt_id,
                                      !.quiz_id = quiz_id], "ok")
                      EXCEPT !.answers = loaded,
                             !.score_data =
                                calculate_score(loaded, quiz_id,
                                                quizzes[quiz_id].passing_score)]]
             /\ answers' = FlushMarks(answers, loaded, quiz_id)
    /\ UNCHANGED <<now, quizzes, assignments, attempts, results, lock,
                   sweep_runs, requests>>
    /\ UNCHANGED <<refresh_tokens, issued>>

RescoreNext == \E p \in Procs : calculate_score_call(p, 1)

RescoreSpec == RescoreInit /\ [][RescoreNext]_vars

(***************************************************************************)
(* Properties                                                              *)
(***************************************************************************)
Submitted(a) == a \in Ids(attempts) /\ attempts[a].status = "submitted"

\* the handler that takes the step
Acts(p) == sess'[p] # sess[p]

\* the answers of an attempt, row by row
AnswersOf(table, a) == {<<i, table[i]>> : i \in {j \in Ids(table) : table[j].attempt_id = a}}

\* C1: in every reachable state there is at most one Result row per attempt,
\* however the submit calls for the attempt interleave.
C1_OneResultPerAttempt ==
    \A a \in Ids(attempts) : Cardinality(ResultRows(a)) <= 1

\* two submits of one attempt have raced and the second INSERT was refused
C1_Witness ==
    \E p \in Procs :
        /\ sess[p].pc = "done"
        /\ sess[p].outcome = "IntegrityError"
        /\ Cardinality(ResultRows(sess[p].attempt_id)) = 1

\* C2: every submit_attempt call for an existing attempt either returns the
\* result payload or ends with AlreadySubmittedException, never with another
\* error (the call nested in a late submit_answer returns into
\* QuizExpiredException).
C2_SubmitEndsOkOrAlreadySubmitted ==
    \A p \in Procs :
        (/\ sess[p].pc = "done"
         /\ \/ sess[p].op = "submit_quiz"
            \/ sess[p].op = "submit_answer" /\ sess[p].late
         /\ sess[p].outcome \notin {"AttemptNotFoundException", "HTTP_403_FORBIDDEN"})
        => sess[p].outcome \in
              {"ok", "QuizExpiredException", "AlreadySubmittedException"}

\* C3: at most one in_progress attempt per (user, quiz) in every reachable
\* state.
C3_OneActiveAttempt ==
    \A u \in Users, q \in QuizIds : Cardinality(get_active_attempt(u, q)) <= 1

\* C7: the attempts of one user for a quiz never outnumber the quiz's
\* max_attempts.
C7_MaxAttemptsRespected ==
    \A u \in Users, q \in QuizIds :
        quizzes[q].max_attempts # None
            => count_user_attempts(u, q) <= quizzes[q].max_attempts

\* C6: submitted is terminal.  Once an attempt is submitted no step changes
\* its row or its Result; a call that begins after the submission (it read
\* the attempt as submitted, or it has not read anything yet) changes none
\* of its Answers, and a submit_answer or submit of its owner that begins
\* then ends with AlreadySubmittedException.
BeganBefore(p, a) ==
    /\ ~Free(p)
    /\ sess[p].attempt_id = a
    /\ ~sess[p].attempt.is_submitted

C4_ExpiredEventuallySubmitted ==
    \A a \in 1..MaxAttempts :
        (a \in Ids(attempts) /\ a \in get_expired_attempts)
            ~> (Submitted(a) /\ ResultRows(a) # {})

\* what an answers table stores of the clients' calls (is_correct is the
\* scoring engine's column)
AnswerContent(table) ==
    [i \in Ids(table) |-> [attempt_id |-> table[i].attempt_id,
                           question_id |-> table[i].question_id,
                           selected_answer |-> table[i].selected_answer]]

\* the call handler p begins in this step is a submit_answer of the owner for
\* an in_progress attempt whose expires_at has passed
BeginsLateAnswer(p) ==
    /\ Free(p)
    /\ Acts(p)
    /\ sess'[p].op = "submit_answer"
    /\ sess'[p].attempt_id \in Ids(attempts)
    /\ attempts[sess'[p].attempt_id].user_id = sess'[p].user
    /\ attempts[sess'[p].attempt_id].status = "in_progress"
    /\ now > attempts[sess'[p].attempt_id].expires_at

C9_AnswerOverwritten ==
    [][\A p \in Procs : (sess[p].pc = "answer_commit" /\ Acts(p)) =>
          LET a == sess[p].attempt_id
              q == sess[p].question_id
          IN /\ Cardinality(AnswerRows(a, q)') = 1
             /\ \A i \in AnswerRows(a, q)' :
                   answers'[i].selected_answer = sess[p].selected_answer
             /\ \A i \in Ids(answers) \ AnswerRows(a, q) :
                   answers'[i] = answers[i]
             /\ Ids(answers') \ AnswerRows(a, q)' = Ids(answers) \ AnswerRows(a, q)
      ]_vars

\* the second submit_answer for a pair has ended, its answer in the one row
C9_Witness ==
    \E p \in Procs :
        /\ sess[p].pc = "done"
        /\ sess[p].op = "submit_answer"
        /\ sess[p].outcome = "ok"
        /\ sess[p].existing # 0
        /\ AnswerRows(sess[p].attempt_id, sess[p].question_id) = {sess[p].existing}
        /\ answers[sess[p].existing].selected_answer = sess[p].selected_answer

\* the questions of quiz q that the answers anss answer correctly
Earned(anss, q) ==
    {k \in QuestionIds :
        /\ Questions[k].quiz_id = q
        /\ \E i \in 1..Len(anss) :
              /\ anss[i].question_id = k
              /\ _check_answer(anss[i].selected_answer,
                               Questions[k].correct_answer,
                               Questions[k].question_type)}

\* C10: total_points is the sum of the points of all questions of the quiz,
\* score the sum of the points of the questions answered correctly; an
\* answer to a question of another quiz adds nothing; two 1-point questions
\* both answered correctly give 2 of 2, 100 percent, passed (one answer per
\* question, calls taken one at a time).
C10_ScoreIsSumOfPoints ==
    \A p \in Procs : sess[p].pc \in {"submit_result", "submit_update"} =>
        LET q == sess[p].quiz_id
            anss == sess[p].answers
            score_data == sess[p].score_data
        IN /\ score_data.total_points
                 = SumPoints({k \in QuestionIds : Questions[k].quiz_id = q})
           /\ score_data.score = SumPoints(Earned(anss, q))
           /\ (\A i \in 1..Len(anss) : Questions[anss[i].question_id].quiz_id # q)
                 => score_data.score = 0
           /\ (q = "q1" /\ Earned(anss, q) = {"k1", "k2"}) =>
                 /\ score_data.score = 2
                 /\ score_data.total_points = 2
                 /\ score_data.percentage = 10000
                 /\ score_data.passed

\* both 1-point questions of q1 answered correctly, and scored
C10_Witness ==
    \E p \in Procs :
        /\ sess[p].pc = "submit_update"
        /\ sess[p].quiz_id = "q1"
        /\ Earned(sess[p].answers, "q1") = {"k1", "k2"}
        /\ sess[p].score_data.score = 2
        /\ sess[p].score_data.passed

\* the policy of the specification: public, or an active assignment whose
\* due date is absent or has not passed
MayAccess(u, q) ==
    \/ quizzes[q].is_public
    \/ \E i \in Ids(assignments) :
          /\ assignments[i].quiz_id = q
          /\ assignments[i].user_id = u
          /\ assignments[i].is_active
          /\ (assignments[i].due_date = None \/ now <= assignments[i].due_date)

\* the due date of an active assignment of (u, q) has passed
PastDue(u, q) ==
    \E i \in Ids(assignments) :
        /\ assignments[i].quiz_id = q
        /\ assignments[i].user_id = u
        /\ assignments[i].is_active
        /\ assignments[i].due_date # None
        /\ now > assignments[i].due_date

\* C8: can_user_access_quiz is true exactly for a public quiz or an active
\* assignment whose due date is absent or has not passed; start_attempt on
\* a published non-public quiz past the due date is rejected with
\* QuizAccessDeniedException and changes nothing (calls taken one at a
\* time).
C8_AccessPolicy ==
    /\ [](\A u \in Users, q \in QuizIds :
             can_user_access_quiz(u, q) = "True" <=> MayAccess(u, q))
    /\ [][\A p \in Procs :
             (/\ Free(p)
              /\ Acts(p)
              /\ sess'[p].op = "start_attempt"
              /\ sess'[p].quiz_id \in QuizIds
              /\ quizzes[sess'[p].quiz_id].is_published
              /\ ~quizzes[sess'[p].quiz_id].is_public
              /\ PastDue(sess'[p].user, sess'[p].quiz_id))
             => /\ sess'[p].pc = "done"
                /\ sess'[p].outcome = "QuizAccessDeniedException"
                /\ UNCHANGED <<quizzes, assignments, attempts, answers, results>>
         ]_vars

\* a start_attempt past the due date of the user's active assignment has
\* been rejected
C8_Witness ==
    \E p \in Procs :
        /\ sess[p].pc = "done"
        /\ sess[p].op = "start_attempt"
        /\ sess[p].outcome = "QuizAccessDeniedException"
        /\ PastDue(sess[p].user, sess[p].quiz_id)

\* C11: with total_points > 0, passed is true exactly when
\* score * 100 >= passing_score * total_points.
C11_PassedAtThreshold ==
    \A p \in Procs :
        (sess[p].pc = "scored" /\ sess[p].score_data.total_points > 0) =>
            (sess[p].score_data.passed
                <=> sess[p].score_data.score * 100
                        >= sess[p].quiz.passing_score
                              * sess[p].score_data.total_points)

\* the string s without its leading and trailing whitespace
Trimmed(s) ==
    LET inked == {i \in 1..Len(s) : s[i] \notin {" ", "\t", "\n"}}
    IN IF inked = {} THEN <<>>
       ELSE SubSeq(s, CHOOSE i \in inked : \A j \in inked : i <= j,
                      CHOOSE i \in inked : \A j \in inked : i >= j)

\* the same letter, in either case
SameLetter(c, d) == c = d \/ {c, d} = {"a", "A"} \/ {c, d} = {"b", "B"}

EqualIgnoringCase(x, y) ==
    Len(x) = Len(y) /\ \A i \in 1..Len(x) : SameLetter(x[i], y[i])

\* C12: _check_answer is true exactly when the two answers are equal after
\* trimming surrounding whitespace and ignoring letter case, whatever the
\* question type.
C12_CheckAnswerNormalises ==
    \A p \in Procs : sess[p].pc = "checked" =>
        /\ sess[p].is_correct = "True"
              <=> EqualIgnoringCase(Trimmed(sess[p].selected_answer),
                                    Trimmed(sess[p].correct_answer))
        /\ \A t \in QuestionTypes :
              _check_answer(sess[p].selected_answer, sess[p].correct_answer, t)
                 = (sess[p].is_correct = "True")

\* a true_false answer that differs from the correct one in case and in
\* surrounding whitespace has been marked correct
C12_Witness ==
    \E p \in Procs :
        /\ sess[p].pc = "checked"
        /\ sess[p].question_type = "true_false"
        /\ sess[p].is_correct = "True"
        /\ Len(sess[p].selected_answer) > Len(sess[p].correct_answer)
        /\ \E i \in 1..Len(sess[p].selected_answer) :
              sess[p].selected_answer[i] = "A"
        /\ \E i \in 1..Len(sess[p].correct_answer) :
              sess[p].correct_answer[i] = "a"

\* C13: once a quiz is published no step changes its row (is_published
\* stays true, the settings stay), and an update_quiz that begins on a
\* published quiz ends with InvalidOperationException.
C13_PublishedQuizImmutable ==
    [][\A q \in QuizIds : quizzes[q].is_published =>
          /\ quizzes'[q] = quizzes[q]
          /\ \A p \in Procs :
                (/\ Free(p)
                 /\ Acts(p)
                 /\ sess'[p].op = "update_quiz"
                 /\ sess'[p].quiz_id = q)
                => (sess'[p].pc = "done"
                    /\ sess'[p].outcome = "InvalidOperationException")
      ]_vars

\* C14: of the refresh_tokens calls that present the same refresh token
\* at most one succeeds, and after a successful call the presented token
\* is revoked.
C14_RefreshTokenUsedOnce ==
    /\ \A p, q \in Procs :
          (/\ p # q
           /\ sess[p].pc = "done" /\ sess[p].op = "refresh_tokens"
           /\ sess[p].outcome = "ok"
           /\ sess[q].pc = "done" /\ sess[q].op = "refresh_tokens"
           /\ sess[q].outcome = "ok")
          => sess[p].token # sess[q].token
    /\ \A p \in Procs :
          (sess[p].pc = "done" /\ sess[p].op = "refresh_tokens"
              /\ sess[p].outcome = "ok")
          => get_refresh_token(hash_token(sess[p].token)) = {}

\* C15: after a logout with an access token, a request to /auth/me that
\* presents the same token is rejected.
C15_AccessTokenDeadAfterLogout ==
    [][\A p, q \in Procs :
          (/\ sess[q].pc = "done" /\ sess[q].op = "logout"
           /\ sess[q].outcome = "ok"
           /\ sess[q].token.type = "access"
           /\ Free(p) /\ Acts(p)
           /\ sess'[p].op = "get_current_user_info"
           /\ sess'[p].token = sess[q].token)
          => sess'[p].outcome # "ok"
      ]_vars

\* C16: a leaderboard answer has at most `limit` entries; its rows are
\* distinct Results of the requested quiz; a row of higher score stands
\* before a row of lower score and, among rows of equal score, the row
\* created earlier stands first; no Result of the quiz left out would have
\* to stand before one that is in; the entry at position i carries rank i
\* and the score of the row at position i.
C16_LeaderboardOrdered ==
    \A p \in Procs :
        (sess[p].pc = "done" /\ sess[p].op = "get_quiz_leaderboard") =>
            LET rows == sess[p].rows
                entries == sess[p].response
                n == Len(rows)
            IN /\ n <= sess[p].limit
               /\ Len(entries) = n
               /\ \A i \in 1..n :
                     /\ rows[i] \in Ids(results)
                     /\ results[rows[i]].quiz_id = sess[p].quiz_id
                     /\ entries[i].rank = i
                     /\ entries[i].score = results[rows[i]].score
                     /\ entries[i].user_id = results[rows[i]].user_id
               /\ \A i, j \in 1..n :
                     i < j =>
                        /\ rows[i] # rows[j]
                        /\ results[rows[i]].score >= results[rows[j]].score
                        /\ results[rows[i]].score = results[rows[j]].score
                              => results[rows[i]].created_at
                                    <= results[rows[j]].created_at
               /\ \A r \in Ids(results) :
                     (/\ results[r].quiz_id = sess[p].quiz_id
                      /\ \A i \in 1..n : rows[i] # r) =>
                        /\ n = sess[p].limit
                        /\ \A i \in 1..n :
                              \/ results[rows[i]].score > results[r].score
                              \/ /\ results[rows[i]].score = results[r].score
                                 /\ results[rows[i]].created_at
                                       <= results[r].created_at

\* a leaderboard of two entries cut by the limit: the first has the higher
\* score although its Result was created later, and the Result left out
\* ties in score with the second
C16_Witness ==
    \E p \in Procs :
        /\ sess[p].pc = "done" /\ sess[p].op = "get_quiz_leaderboard"
        /\ sess[p].limit = 2 /\ Len(sess[p].rows) = 2
        /\ sess[p].response[2].rank = 2
        /\ results[sess[p].rows[1]].score > results[sess[p].rows[2]].score
        /\ results[sess[p].rows[1]].created_at
              > results[sess[p].rows[2]].created_at
        /\ \E r \in Ids(results) :
              /\ results[r].quiz_id = sess[p].quiz_id
              /\ r \notin {sess[p].rows[1], sess[p].rows[2]}
              /\ results[r].score = results[sess[p].rows[2]].score

\* C17: when send_task raises in submit_attempt, the step leaves the Result
\* of the attempt in the results table and the attempt submitted
\* (is_submitted, status, submitted_at, time_taken_seconds as the update
\* wrote them), and they are still there in every later state.
C17_EnqueueFailureKeepsSubmission ==
    /\ [][\A p \in Procs :
             (/\ sess[p].pc = "submit_update"
              /\ Acts(p)
              /\ sess'[p].outcome = "OperationalError") =>
                LET a == sess[p].attempt_id
                IN /\ results' = results
                   /\ answers' = answers
                   /\ sess[p].result_id \in ResultRows(a)'
                   /\ attempts'[a].is_submitted
                   /\ attempts'[a].status = "submitted"
                   /\ attempts'[a].submitted_at = now
                   /\ attempts'[a].time_taken_seconds
                         = sess[p].time_taken_seconds]_vars
    /\ [](\A p \in Procs :
             (sess[p].pc = "done" /\ sess[p].outcome = "OperationalError") =>
                /\ Submitted(sess[p].attempt_id)
                /\ attempts[sess[p].attempt_id].is_submitted
                /\ attempts[sess[p].attempt_id].submitted_at # None
                /\ attempts[sess[p].attempt_id].time_taken_seconds # None
                /\ ResultRows(sess[p].attempt_id) # {})

\* a submit call has ended with the error of send_task; the attempt is
\* submitted and has its Result
C17_Witness ==
    \E p \in Procs :
        /\ sess[p].pc = "done"
        /\ sess[p].op = "submit_quiz"
        /\ sess[p].outcome = "OperationalError"
        /\ Submitted(sess[p].attempt_id)
        /\ Cardinality(ResultRows(sess[p].attempt_id)) = 1

\* the call held in session s is a submit-answer or a submit on an attempt
\* of another user
NotOwner(s) ==
    /\ s.op \in {"submit_answer", "submit_quiz"}
    /\ s.attempt_id \in Ids(attempts)
    /\ attempts[s.attempt_id].user_id # s.user

\* C18: a submit-answer or submit call by a user who does not own the
\* attempt ends at once with 403; no step of the call changes the answers,
\* the results or the attempts table, whether the attempt has expired or not.
C18_NotOwnerForbidden ==
    [][\A p \in Procs :
          Acts(p) =>
             /\ (Free(p) /\ NotOwner(sess'[p])) =>
                   /\ sess'[p].pc = "done"
                   /\ sess'[p].outcome = "HTTP_403_FORBIDDEN"
                   /\ answers' = answers
                   /\ results' = results
                   /\ attempts' = attempts
             /\ (~Free(p) /\ NotOwner(sess[p])) =>
                   /\ answers' = answers
                   /\ results' = results
                   /\ attempts' = attempts]_vars

\* a submit-answer of a user on another user's attempt, which is in progress
\* and past its expires_at, has ended with 403: the attempt is still in
\* progress, without Answer and without Result
C18_Witness ==
    \E p \in Procs :
        /\ sess[p].pc = "done"
        /\ sess[p].op = "submit_answer"
        /\ NotOwner(sess[p])
        /\ sess[p].outcome = "HTTP_403_FORBIDDEN"
        /\ attempts[sess[p].attempt_id].status = "in_progress"
        /\ ~attempts[sess[p].attempt_id].is_submitted
        /\ now > attempts[sess[p].attempt_id].expires_at
        /\ ResultRows(sess[p].attempt_id) = {}
        /\ AnswersOf(answers, sess[p].attempt_id) = {}

\* the error the first four preconditions of start_attempt call for, in
\* their order, or "pass"
FirstViolated(u, q) ==
    IF q \notin DOMAIN quizzes THEN "QuizNotFoundException"
    ELSE IF ~quizzes[q].is_published THEN "QuizNotPublishedException"
    ELSE IF ~MayAccess(u, q) THEN "QuizAccessDeniedException"
    ELSE IF \E i \in Ids(attempts) : /\ attempts[i].user_id = u
                                     /\ attempts[i].quiz_id = q
                                     /\ attempts[i].status = "in_progress"
         THEN "ActiveAttemptExistsException"
    ELSE "pass"

\* C19: start_attempt ends with the error of the first violated
\* precondition, in the order quiz exists, published, access granted, no
\* in_progress attempt of (user, quiz), attempt count below max_attempts;
\* a call that ends with an error creates no attempt.
C19_StartPreconditionOrder ==
    [][\A p \in Procs :
          /\ (Free(p) /\ Acts(p) /\ sess'[p].op = "start_attempt") =>
                LET expected == FirstViolated(sess'[p].user, sess'[p].quiz_id)
                IN /\ attempts' = attempts
                   /\ IF expected = "pass"
                      THEN sess'[p].pc = "start_count"
                      ELSE /\ sess'[p].pc = "done"
                           /\ sess'[p].outcome = expected
          /\ (sess[p].pc = "start_count" /\ Acts(p)) =>
                LET max_attempts == quizzes[sess[p].quiz_id].max_attempts
                    reached ==
                        /\ max_attempts # None
                        /\ Cardinality({i \in Ids(attempts) :
                              /\ attempts[i].user_id = sess[p].user
                              /\ attempts[i].quiz_id = sess[p].quiz_id})
                                 >= max_attempts
                IN /\ attempts' = attempts
                   /\ IF reached
                      THEN /\ sess'[p].pc = "done"
                           /\ sess'[p].outcome = "MaxAttemptsReachedException"
                      ELSE sess'[p].pc = "start_create"]_vars

\* C20: in every reachable state there is at most one Answer row per
\* (attempt, question) pair, however the submit_answer calls for the pair
\* interleave.
C20_OneAnswerPerQuestion ==
    \A a \in Ids(attempts), k \in QuestionIds :
        Cardinality(AnswerRows(a, k)) <= 1

\* C21: in every reachable state the Result of an attempt equals what
\* calculate_score returns on the answers the attempt has in the answers
\* table: no Answer row of the attempt is inserted or overwritten after the
\* scoring that produced the Result.
C21_ResultMatchesStoredAnswers ==
    \A i \in Ids(results) :
        LET a == results[i].attempt_id
            score_data == calculate_score(LoadAnswers(a, 1), attempts[a].quiz_id,
                              quizzes[attempts[a].quiz_id].passing_score)
        IN /\ results[i].score = score_data.score
           /\ results[i].total_points = score_data.total_points
           /\ results[i].percentage = score_data.percentage
           /\ results[i].passed = score_data.passed

\* C22: in every committed state, for every attempt, is_submitted is true
\* exactly when status is submitted, exactly when submitted_at and
\* time_taken_seconds are set, and exactly when the attempt has a Result;
\* the status expired is never stored.
C22_SubmissionMarkersAgree ==
    \A a \in Ids(attempts) :
        /\ attempts[a].is_submitted <=> attempts[a].status = "submitted"
        /\ attempts[a].is_submitted <=> attempts[a].submitted_at # None
        /\ attempts[a].is_submitted <=> attempts[a].time_taken_seconds # None
        /\ attempts[a].is_submitted <=> ResultRows(a) # {}
        /\ attempts[a].status # "expired"

\* C23: in every committed state every Answer of an attempt without Result
\* has is_correct unset, and every Answer of an attempt with a Result whose
\* question belongs to the attempt's quiz has is_correct set.
C23_FlagsCommittedWithResult ==
    \A i \in Ids(answers) :
        LET a == answers[i].attempt_id
        IN /\ ResultRows(a) = {} => answers[i].is_correct = "None"
           /\ (/\ ResultRows(a) # {}
               /\ answers[i].question_id \in get_questions(attempts[a].quiz_id))
                 => answers[i].is_correct \in {"True", "False"}

\* (q, u) has an active assignment row
ActiveRow(q, u) ==
    \E i \in Ids(assignments) : /\ assignments[i].quiz_id = q
                                /\ assignments[i].user_id = u
                                /\ assignments[i].is_active

\* handler p begins a start_attempt for a published non-public quiz
StartsNonPublic(p) ==
    /\ Free(p)
    /\ Acts(p)
    /\ sess'[p].op = "start_attempt"
    /\ sess'[p].quiz_id \in QuizIds
    /\ quizzes[sess'[p].quiz_id].is_published
    /\ ~quizzes[sess'[p].quiz_id].is_public

\* C24: revoke_assignment leaves the pair without active assignment; while
\* it has none, every start_attempt of the user for the non-public quiz
\* ends with QuizAccessDeniedException and creates nothing; only an
\* assign_quiz for the pair gives it an active assignment again, and it
\* does so on the existing row, whose due date it replaces; after that a
\* start_attempt is not denied access when the due date is absent or has
\* not passed (calls taken one at a time).
C24_RevokedUntilReassigned ==
    [][/\ \A p \in Procs :
             /\ (sess[p].pc = "revoke_commit" /\ Acts(p)) =>
                   ~ActiveRow(sess[p].quiz_id, sess[p].user)'
             /\ (StartsNonPublic(p)
                 /\ ~ActiveRow(sess'[p].quiz_id, sess'[p].user)) =>
                   /\ sess'[p].pc = "done"
                   /\ sess'[p].outcome = "QuizAccessDeniedException"
                   /\ attempts' = attempts
             /\ (/\ sess[p].pc = "assign_commit"
                 /\ Acts(p)
                 /\ AssignmentRows(sess[p].quiz_id, sess[p].user) # {}) =>
                   /\ Len(assignments') = Len(assignments)
                   /\ \A i \in Ids(assignments) :
                         IF i \in AssignmentRows(sess[p].quiz_id, sess[p].user)
                         THEN /\ assignments'[i].is_active
                              /\ assignments'[i].due_date = sess[p].due_date
                         ELSE assignments'[i] = assignments[i]
             /\ (/\ StartsNonPublic(p)
                 /\ \E i \in AssignmentRows(sess'[p].quiz_id, sess'[p].user) :
                       /\ assignments[i].is_active
                       /\ (assignments[i].due_date = None
                           \/ now <= assignments[i].due_date)) =>
                   sess'[p].outcome # "QuizAccessDeniedException"
       /\ \A u \in Users, q \in QuizIds :
             (~ActiveRow(q, u) /\ ActiveRow(q, u)') =>
                \E p \in Procs : /\ sess[p].pc = "assign_commit"
                                 /\ Acts(p)
                                 /\ sess[p].quiz_id = q
                                 /\ sess[p].user = u
      ]_vars

\* the assignment of u1 to q2 is revoked, its due date has not passed, and
\* a start_attempt of u1 for q2 has been rejected
C24_Witness ==
    \E p \in Procs, i \in Ids(assignments) :
        /\ assignments[i].quiz_id = "q2"
        /\ assignments[i].user_id = "u1"
        /\ ~assignments[i].is_active
        /\ assignments[i].due_date # None
        /\ now <= assignments[i].due_date
        /\ sess[p].pc = "done"
        /\ sess[p].op = "start_attempt"
        /\ sess[p].user = "u1"
        /\ sess[p].quiz_id = "q2"
        /\ sess[p].outcome = "QuizAccessDeniedException"
        /\ attempts = <<>>

\* C25: in every reachable state there is at most one assignment row per
\* (quiz, user) pair, however the assign_quiz and revoke_assignment calls
\* interleave.
C25_OneAssignmentPerPair ==
    \A q \in QuizIds, u \in Users : Cardinality(AssignmentRows(q, u)) <= 1

\* C26: two calculate_score calls on the same attempt, its answers and
\* questions unchanged, return the same score, total_points, percentage and
\* passed, in whatever order the answers load; a call on answers whose
\* flags an earlier call has set leaves every flag as it is.
C26_ScoringIdempotent ==
    /\ [](\A p, r \in Procs :
             (/\ sess[p].pc = "done" /\ sess[p].op = "calculate_score"
              /\ sess[r].pc = "done" /\ sess[r].op = "calculate_score"
              /\ sess[p].attempt_id = sess[r].attempt_id)
                => sess[p].score_data = sess[r].score_data)
    /\ [][\A p, r \in Procs :
             (/\ Acts(p)
              /\ sess'[p].op = "calculate_score"
              /\ sess[r].pc = "done" /\ sess[r].op = "calculate_score"
              /\ sess[r].attempt_id = sess'[p].attempt_id)
                => /\ answers' = answers
                   /\ sess'[p].score_data = sess[r].score_data]_vars

\* two calls on an attempt of q1 with a right answer to k1, a wrong answer
\* to k2 and an answer to a question of another quiz have loaded the
\* answers in different orders and returned one point of two
C26_Witness ==
    /\ sess["p1"].pc = "done" /\ sess["p1"].op = "calculate_score"
    /\ sess["p2"].pc = "done" /\ sess["p2"].op = "calculate_score"
    /\ sess["p1"].answers # sess["p2"].answers
    /\ Len(sess["p1"].answers) = 3
    /\ sess["p1"].score_data.score = 1
    /\ sess["p2"].score_data.score = 1
    /\ sess["p1"].score_data.total_points = 2
    /\ \E i, j, k \in Ids(answers) :
          /\ answers[i].is_correct = "True"
          /\ answers[j].is_correct = "False"
          /\ answers[k].is_correct = "None"

\* C27: every Result has 0 <= score <= total_points and a percentage
\* between 0 and 100 (in hundredths: 0..10000), however the start_attempt,
\* submit_answer and submit_attempt calls interleave.
C27_ScoreWithinTotal ==
    \A i \in Ids(results) :
        /\ 0 <= results[i].score
        /\ results[i].score <= results[i].total_points
        /\ 0 <= results[i].percentage
        /\ results[i].percentage <= 10000

\* the unsubmitted attempts of (u, q)
Unsubmitted(u, q) ==
    {i \in Ids(attempts) : /\ attempts[i].user_id = u
                           /\ attempts[i].quiz_id = q
                           /\ ~attempts[i].is_submitted}

\* C28: while an attempt of (user, quiz) is unsubmitted, expired or not,
\* every start_attempt of the user for the quiz, published and accessible,
\* ends with ActiveAttemptExistsException and creates nothing; an attempt is
\* created only when the pair has no unsubmitted attempt.
C28_UnsubmittedBlocksStart ==
    [][\A p \in Procs :
          /\ (/\ Free(p)
              /\ Acts(p)
              /\ sess'[p].op = "start_attempt"
              /\ sess'[p].quiz_id \in QuizIds
              /\ quizzes[sess'[p].quiz_id].is_published
              /\ MayAccess(sess'[p].user, sess'[p].quiz_id)
              /\ Unsubmitted(sess'[p].user, sess'[p].quiz_id) # {}) =>
                /\ sess'[p].pc = "done"
                /\ sess'[p].outcome = "ActiveAttemptExistsException"
                /\ attempts' = attempts
          /\ (sess[p].pc = "start_create" /\ Acts(p)) =>
                Unsubmitted(sess[p].user, sess[p].quiz_id) = {}]_vars

\* C29: in every reachable state every Answer row references a question of
\* the quiz of its attempt.
C29_AnswerQuestionOfQuiz ==
    \A i \in Ids(answers) :
        answers[i].question_id
            \in get_questions(attempts[answers[i].attempt_id].quiz_id)

\* C30: a request to a protected endpoint whose bearer credential is a
\* refresh token is rejected by get_current_user, whether the refresh token
\* has been revoked or not.
C30_RefreshTokenNotBearer ==
    \A p \in Procs :
        (/\ sess[p].pc = "done"
         /\ sess[p].op = "get_current_user_info"
         /\ sess[p].token.type = "refresh")
            => sess[p].outcome = "HTTP_401_UNAUTHORIZED"

====
